---- MODULE Spec2Model ----
(***************************************************************************)
(* Model of wallpaper.py: the WallpaperManager (indexed pool, disliked     *)
(* and favorites lists, history, chosen, done, one threading.Lock), the    *)
(* command loop of ezrun() driving it through InputHost.read on the main   *)
(* thread, and WallpaperManager.run() on the rotation thread.              *)
(*                                                                         *)
(* Spec runs the command loop on already parsed commands of the console    *)
(* host.  HostSpec runs a bounded number of reads of either input host     *)
(* (InputStdin, InputServer) on command strings, through the parser of     *)
(* InputHost.read, with the same manager and rotation thread.              *)
(*                                                                         *)
(* Every manager method is split at the points where the other thread can  *)
(* interleave: the lock.acquire(), the body executed under the lock, and   *)
(* the lock.release().  An exception that leaves a method is recorded in   *)
(* err and ends the thread (nothing in the call chain catches it).         *)
(***************************************************************************)
EXTENDS Integers, Sequences, FiniteSets, TLC

VARIABLES
    indexed,              \* self.indexed: the candidate pool (a list)
    disliked_filepaths,   \* self.disliked_filepaths (a list)
    favorites_filepaths,  \* self.favorites_filepaths (a list)
    history,              \* self.history (a list, oldest first)
    chosen,               \* self.chosen
    done,                 \* self.done
    update_period_minutes, \* self.update_period_minutes
    lock,                 \* self.lock: NoThread or the thread holding it
    mode_favorites,       \* InputHost.mode_favorites
    wallpaper,            \* the desktop background (SystemParametersInfoW)
    setCalls,             \* parity of the number of set_wallpaper calls
    dislikedFile,         \* contents of DislikedCheckpoint.json
    favoritesFile,        \* contents of Favorites.json
    pc,                   \* per thread: the statement it is about to execute
    favorites,            \* per thread: the favorites argument of its pick()
    err,                  \* per thread: the exception that ended it, or NoError
    slept,                \* rotation thread: sleep increments done this period
    target,               \* main thread: the path the running dislike() acts on
    entry,                \* manager state when the lock holder acquired the lock
    host,                 \* input_cls of ezrun: "stdin" or "server"
    server_socket,        \* InputServer.server_socket: "None" or "open"
    client_socket,        \* InputServer.client_socket: "None" or "connected"
    inputs,               \* the command strings a read can deliver
    budget,               \* the number of reads the command loop is run for
    io,                   \* what input()/accept()/recv() did in each read so far
    command,              \* the command string of the last read, if it had one
    action,               \* the branch of InputHost.read the last read took
    keep_going            \* what the last read returns to the loop of ezrun

\* the state of the input host and of the command strings it reads
hostVars == <<host, server_socket, client_socket, inputs, budget, io, command,
              action, keep_going>>

vars == <<hostVars, update_period_minutes, indexed, disliked_filepaths, favorites_filepaths, history, chosen,
          done, lock, mode_favorites, wallpaper, setCalls, dislikedFile,
          favoritesFile, pc, favorites, err, slept, target, entry>>

-----------------------------------------------------------------------------
(* Bounds of the model *)

\* pick is started only while the history is shorter than this
MaxHistory == 2
\* favorite is started only while the favorites list is shorter than this
MaxFavorites == 1

(* Program constants *)

\* time.sleep(5)
SleepSeconds == 5
\* range(60//5)
IncrementsPerMinute == 60 \div SleepSeconds

-----------------------------------------------------------------------------
(* Threads and values *)

Main == "main"
Rot == "rot"
Threads == {Main, Rot}
NoThread == "none"
NoError == "none"
NoPath == "none"
NoEntry == [held |-> FALSE]

\* The characters of the path and extension strings of the model
Text == [p \in {"a.jpg", "b.jpg", "c.txt", "s.bmp", ".jpg", "jpg"} |->
           CASE p = "a.jpg" -> <<"a", ".", "j", "p", "g">>
             [] p = "b.jpg" -> <<"b", ".", "j", "p", "g">>
             [] p = "c.txt" -> <<"c", ".", "t", "x", "t">>
             [] p = "s.bmp" -> <<"s", ".", "b", "m", "p">>
             [] p = ".jpg"  -> <<".", "j", "p", "g">>
             [] p = "jpg"   -> <<"j", "p", "g">>]

\* what a run starts from: the os.walk result, legal_extensions, the two
\* snapshot files and the desktop background found by get_wallpaper()
Configurations ==
    { \* two pictures, a start background outside the pool
      [files |-> <<"a.jpg", "c.txt", "b.jpg">>, exts |-> <<".jpg">>,
       dis |-> <<>>, favs |-> <<>>, start |-> "s.bmp",
       period |-> 1],
      \* every picture matches two extensions; the start background is in the pool
      [files |-> <<"a.jpg", "c.txt", "b.jpg">>, exts |-> <<".jpg", "jpg">>,
       dis |-> <<>>, favs |-> <<>>, start |-> "a.jpg",
       period |-> 1],
      \* one picture left in the pool; a favorite that is already disliked
      [files |-> <<"a.jpg", "c.txt", "b.jpg">>, exts |-> <<".jpg">>,
       dis |-> <<"b.jpg">>, favs |-> <<"b.jpg">>, start |-> "a.jpg",
       period |-> 1] }

-----------------------------------------------------------------------------
(* List operations *)

Range(s) == {s[i] : i \in 1..Len(s)}

Last(s) == s[Len(s)]

\* list.remove(x): removes the first occurrence (the caller checks x is in s)
FirstIndex(s, x) == CHOOSE i \in 1..Len(s) : s[i] = x /\ \A j \in 1..(i-1) : s[j] # x
RemoveFirst(s, x) ==
    LET i == FirstIndex(s, x)
    IN SubSeq(s, 1, i-1) \o SubSeq(s, i+1, Len(s))

\* list.pop(): removes the last element
Pop(s) == SubSeq(s, 1, Len(s) - 1)

\* str.endswith
EndsWith(p, e) ==
    LET tp == Text[p]
        te == Text[e]
    IN Len(te) <= Len(tp) /\ SubSeq(tp, Len(tp) - Len(te) + 1, Len(tp)) = te

\* "for extension in legal_extensions: if filepath.endswith(extension): append"
RECURSIVE MatchesOf(_, _)
MatchesOf(p, exts) ==
    IF exts = <<>> THEN <<>>
    ELSE (IF EndsWith(p, Head(exts)) THEN <<p>> ELSE <<>>) \o MatchesOf(p, Tail(exts))

\* "for filepath in indexed: ..." : one entry per file and matching extension
RECURSIVE Filtered(_, _)
Filtered(files, exts) ==
    IF files = <<>> THEN <<>>
    ELSE MatchesOf(Head(files), exts) \o Filtered(Tail(files), exts)

\* filter(lambda filepath: filepath not in self.disliked_filepaths, indexed)
NotDisliked(files, dis) == SelectSeq(files, LAMBDA p : p \notin Range(dis))

\* the manager state a method finds when it has acquired the lock
Snapshot ==
    [held |-> TRUE, history |-> history, chosen |-> chosen, indexed |-> indexed,
     disliked_filepaths |-> disliked_filepaths,
     favorites_filepaths |-> favorites_filepaths, done |-> done,
     wallpaper |-> wallpaper, setCalls |-> setCalls]

-----------------------------------------------------------------------------
(* WallpaperManager.__init__ and the start of ezrun *)

NoCommand == <<"none">>

\* WallpaperManager(...) on configuration c, InputHost.__init__, thread.start()
ManagerInit(c) ==
    /\ indexed = NotDisliked(Filtered(c.files, c.exts), c.dis)
    /\ disliked_filepaths = c.dis
    /\ favorites_filepaths = c.favs
    /\ chosen = c.start
    /\ history = <<c.start>>
    /\ done = FALSE
    /\ update_period_minutes = c.period
    /\ lock = NoThread
    /\ mode_favorites = FALSE
    /\ wallpaper = c.start
    /\ setCalls = 0
    /\ dislikedFile = c.dis
    /\ favoritesFile = c.favs
    /\ pc = [t \in Threads |-> IF t = Main THEN "read" ELSE "while_check"]
    /\ favorites = [t \in Threads |-> FALSE]
    /\ err = [t \in Threads |-> NoError]
    /\ slept = 0
    /\ target = NoPath
    /\ entry = NoEntry

\* the input host h before its first read, to be run for n reads on the
\* command strings cmds
HostInit(h, cmds, n) ==
    /\ host = h
    /\ server_socket = "None"
    /\ client_socket = "None"
    /\ inputs = cmds
    /\ budget = n
    /\ io = <<>>
    /\ command = NoCommand
    /\ action = "none"
    /\ keep_going = "True"

\* the console host; its reads are the Read actions on parsed commands
Init ==
    \E c \in Configurations :
        /\ ManagerInit(c)
        /\ HostInit("stdin", {}, 0)

\* set_wallpaper(path)
SetWallpaper(path) ==
    /\ wallpaper' = path
    /\ setCalls' = 1 - setCalls

\* an exception leaves the method and ends thread t
Raise(t, e) ==
    /\ pc' = [pc EXCEPT ![t] = "raised"]
    /\ err' = [err EXCEPT ![t] = e]

Goto(t, label) == pc' = [pc EXCEPT ![t] = label]

-----------------------------------------------------------------------------
(* WallpaperManager.pick(favorites), run by thread t *)

\* pick() that does not wait for the lock
PickAcquireNoWait(t) ==
    /\ pc[t] = "pick_acquire"
    /\ lock' = t
    /\ entry' = Snapshot
    /\ Goto(t, "pick_choose")
    /\ UNCHANGED <<hostVars, update_period_minutes, indexed, disliked_filepaths,
                   favorites_filepaths, history, chosen, done, mode_favorites,
                   wallpaper, setCalls, dislikedFile, favoritesFile, favorites,
                   err, slept, target>>

PickAcquire(t) ==
    /\ pc[t] = "pick_acquire"
    /\ lock = NoThread
    /\ lock' = t
    /\ entry' = Snapshot
    /\ Goto(t, "pick_choose")
    /\ UNCHANGED <<hostVars, update_period_minutes, indexed, disliked_filepaths, favorites_filepaths, history,
                   chosen, done, mode_favorites, wallpaper, setCalls,
                   dislikedFile, favoritesFile, favorites, err, slept, target>>

\* pick() that ignores its favorites argument
PickSourcePoolOnly(t) == indexed

\* the list random.choice draws from
PickSource(t) ==
    IF favorites[t] /\ Len(favorites_filepaths) > 0
    THEN favorites_filepaths
    ELSE indexed

\* lines 280-285; random.choice of an empty list raises IndexError
PickChoose(t) ==
    /\ pc[t] = "pick_choose"
    /\ IF Len(PickSource(t)) = 0
       THEN /\ Raise(t, "IndexError")
            /\ UNCHANGED chosen
       ELSE /\ \E i \in 1..Len(PickSource(t)) : chosen' = PickSource(t)[i]
            /\ Goto(t, "pick_set")
            /\ UNCHANGED err
    /\ UNCHANGED <<hostVars, update_period_minutes, indexed, disliked_filepaths, favorites_filepaths, history,
                   done, lock, mode_favorites, wallpaper, setCalls,
                   dislikedFile, favoritesFile, favorites, slept, target, entry>>

\* lines 288-289
PickSet(t) ==
    /\ pc[t] = "pick_set"
    /\ SetWallpaper(chosen)
    /\ history' = Append(history, chosen)
    /\ Goto(t, "pick_release")
    /\ UNCHANGED <<hostVars, update_period_minutes, indexed, disliked_filepaths, favorites_filepaths, chosen,
                   done, lock, mode_favorites, dislikedFile, favoritesFile,
                   favorites, err, slept, target, entry>>

\* line 290, and the return to the caller: dislike(), InputHost.read or run()
PickRelease(t) ==
    /\ pc[t] = "pick_release"
    /\ lock' = NoThread
    /\ entry' = NoEntry
    /\ Goto(t, IF t = Rot THEN "while_check"
               ELSE IF target # NoPath THEN "dislike_return" ELSE "read")
    /\ favorites' = [favorites EXCEPT ![t] = FALSE]
    /\ UNCHANGED <<hostVars, update_period_minutes, indexed, disliked_filepaths, favorites_filepaths, history,
                   chosen, done, mode_favorites, wallpaper, setCalls,
                   dislikedFile, favoritesFile, err, slept, target>>

-----------------------------------------------------------------------------
(* WallpaperManager.undo, run by the main thread *)

UndoAcquire ==
    /\ pc[Main] = "undo_acquire"
    /\ lock = NoThread
    /\ lock' = Main
    /\ entry' = Snapshot
    /\ Goto(Main, "undo_body")
    /\ UNCHANGED <<hostVars, update_period_minutes, indexed, disliked_filepaths, favorites_filepaths, history,
                   chosen, done, mode_favorites, wallpaper, setCalls,
                   dislikedFile, favoritesFile, favorites, err, slept, target>>

\* undo() with set_wallpaper moved out of the length test
UndoBodyAlwaysSets ==
    /\ pc[Main] = "undo_body"
    /\ IF Len(history) > 1
       THEN /\ history' = Pop(history)
            /\ SetWallpaper(Last(Pop(history)))
       ELSE /\ SetWallpaper(Last(history))
            /\ UNCHANGED history
    /\ Goto(Main, "undo_release")
    /\ UNCHANGED <<hostVars, update_period_minutes, indexed, disliked_filepaths,
                   favorites_filepaths, chosen, done, lock, mode_favorites,
                   dislikedFile, favoritesFile, favorites, err, slept, target,
                   entry>>

\* lines 236-239: self.chosen is not assigned
UndoBody ==
    /\ pc[Main] = "undo_body"
    /\ IF Len(history) > 1
       THEN /\ history' = Pop(history)
            /\ SetWallpaper(Last(Pop(history)))
       ELSE UNCHANGED <<history, wallpaper, setCalls>>
    /\ Goto(Main, "undo_release")
    /\ UNCHANGED <<hostVars, update_period_minutes, indexed, disliked_filepaths, favorites_filepaths, chosen,
                   done, lock, mode_favorites, dislikedFile, favoritesFile,
                   favorites, err, slept, target, entry>>

UndoRelease ==
    /\ pc[Main] = "undo_release"
    /\ lock' = NoThread
    /\ entry' = NoEntry
    /\ Goto(Main, "read")
    /\ UNCHANGED <<hostVars, update_period_minutes, indexed, disliked_filepaths, favorites_filepaths, history,
                   chosen, done, mode_favorites, wallpaper, setCalls,
                   dislikedFile, favoritesFile, favorites, err, slept, target>>

-----------------------------------------------------------------------------
(* WallpaperManager.favorite, run by the main thread *)

FavoriteAcquire ==
    /\ pc[Main] = "favorite_acquire"
    /\ lock = NoThread
    /\ lock' = Main
    /\ entry' = Snapshot
    /\ Goto(Main, "favorite_append")
    /\ UNCHANGED <<hostVars, update_period_minutes, indexed, disliked_filepaths, favorites_filepaths, history,
                   chosen, done, mode_favorites, wallpaper, setCalls,
                   dislikedFile, favoritesFile, favorites, err, slept, target>>

\* favorite() that keeps one entry for each path
FavoriteAppendOnce ==
    /\ pc[Main] = "favorite_append"
    /\ favorites_filepaths' = IF chosen \in Range(favorites_filepaths)
                              THEN favorites_filepaths
                              ELSE Append(favorites_filepaths, chosen)
    /\ Goto(Main, "favorite_write")
    /\ UNCHANGED <<hostVars, update_period_minutes, indexed, disliked_filepaths, history, chosen, done, lock,
                   mode_favorites, wallpaper, setCalls, dislikedFile,
                   favoritesFile, favorites, err, slept, target, entry>>

\* line 248
FavoriteAppend ==
    /\ pc[Main] = "favorite_append"
    /\ favorites_filepaths' = Append(favorites_filepaths, chosen)
    /\ Goto(Main, "favorite_write")
    /\ UNCHANGED <<hostVars, update_period_minutes, indexed, disliked_filepaths, history, chosen, done, lock,
                   mode_favorites, wallpaper, setCalls, dislikedFile,
                   favoritesFile, favorites, err, slept, target, entry>>

\* lines 250-254: the snapshot is written, or open()/json.dump raises OSError
FavoriteWrite ==
    /\ pc[Main] = "favorite_write"
    /\ \/ /\ favoritesFile' = favorites_filepaths
          /\ UNCHANGED err
       \/ /\ err' = [err EXCEPT ![Main] = "OSError"]
          /\ UNCHANGED favoritesFile
    /\ Goto(Main, "favorite_release")
    /\ UNCHANGED <<hostVars, update_period_minutes, indexed, disliked_filepaths, favorites_filepaths, history,
                   chosen, done, lock, mode_favorites, wallpaper, setCalls,
                   dislikedFile, favorites, slept, target, entry>>

\* favorite() whose lock.release() follows the write instead of sitting in finally
FavoriteReleaseOnSuccess ==
    /\ pc[Main] = "favorite_release"
    /\ IF err[Main] = NoError
       THEN lock' = NoThread /\ entry' = NoEntry
       ELSE UNCHANGED <<lock, entry>>
    /\ Goto(Main, IF err[Main] = NoError THEN "read" ELSE "raised")
    /\ UNCHANGED <<hostVars, update_period_minutes, indexed, disliked_filepaths,
                   favorites_filepaths, history, chosen, done, mode_favorites,
                   wallpaper, setCalls, dislikedFile, favoritesFile, favorites,
                   err, slept, target>>

\* lines 255-256: the finally clause, then the return or the pending exception
FavoriteRelease ==
    /\ pc[Main] = "favorite_release"
    /\ lock' = NoThread
    /\ entry' = NoEntry
    /\ Goto(Main, IF err[Main] = NoError THEN "read" ELSE "raised")
    /\ UNCHANGED <<hostVars, update_period_minutes, indexed, disliked_filepaths, favorites_filepaths, history,
                   chosen, done, mode_favorites, wallpaper, setCalls,
                   dislikedFile, favoritesFile, favorites, err, slept, target>>

-----------------------------------------------------------------------------
(* WallpaperManager.dislike, run by the main thread *)

DislikeAcquire ==
    /\ pc[Main] = "dislike_acquire"
    /\ lock = NoThread
    /\ lock' = Main
    /\ entry' = Snapshot
    /\ target' = chosen
    /\ Goto(Main, "dislike_body")
    /\ UNCHANGED <<hostVars, update_period_minutes, indexed, disliked_filepaths, favorites_filepaths, history,
                   chosen, done, mode_favorites, wallpaper, setCalls,
                   dislikedFile, favoritesFile, favorites, err, slept>>

\* lines 263-266: history.remove(self.chosen), ValueError swallowed
HistoryRemoved ==
    IF chosen \in Range(history) THEN RemoveFirst(history, chosen) ELSE history

\* lines 263-268: indexed.remove(self.chosen) raises ValueError, outside any
\* try, when chosen is not in the pool
DislikeBody ==
    /\ pc[Main] = "dislike_body"
    /\ history' = HistoryRemoved
    /\ IF chosen \in Range(indexed)
       THEN /\ indexed' = RemoveFirst(indexed, chosen)
            /\ disliked_filepaths' = Append(disliked_filepaths, chosen)
            /\ Goto(Main, "dislike_write")
            /\ UNCHANGED err
       ELSE /\ Raise(Main, "ValueError")
            /\ UNCHANGED <<indexed, disliked_filepaths>>
    /\ UNCHANGED <<hostVars, update_period_minutes, favorites_filepaths, chosen, done, lock, mode_favorites,
                   wallpaper, setCalls, dislikedFile, favoritesFile, favorites,
                   slept, target, entry>>

\* lines 269-271: the snapshot is written, or open()/json.dump raises OSError
DislikeWrite ==
    /\ pc[Main] = "dislike_write"
    /\ \/ /\ dislikedFile' = disliked_filepaths
          /\ UNCHANGED err
       \/ /\ err' = [err EXCEPT ![Main] = "OSError"]
          /\ UNCHANGED dislikedFile
    /\ Goto(Main, "dislike_release")
    /\ UNCHANGED <<hostVars, update_period_minutes, indexed, disliked_filepaths, favorites_filepaths, history,
                   chosen, done, lock, mode_favorites, wallpaper, setCalls,
                   favoritesFile, favorites, slept, target, entry>>

\* lines 272-275: the finally clause, then self.pick() or the pending exception
DislikeRelease ==
    /\ pc[Main] = "dislike_release"
    /\ lock' = NoThread
    /\ entry' = NoEntry
    /\ Goto(Main, IF err[Main] = NoError THEN "pick_acquire" ELSE "raised")
    /\ favorites' = [favorites EXCEPT ![Main] = FALSE]
    /\ UNCHANGED <<hostVars, update_period_minutes, indexed, disliked_filepaths, favorites_filepaths, history,
                   chosen, done, mode_favorites, wallpaper, setCalls,
                   dislikedFile, favoritesFile, err, slept, target>>

\* dislike() returns to InputHost.read after its self.pick()
DislikeReturn ==
    /\ pc[Main] = "dislike_return"
    /\ target' = NoPath
    /\ Goto(Main, "read")
    /\ UNCHANGED <<hostVars, update_period_minutes, indexed, disliked_filepaths, favorites_filepaths, history,
                   chosen, done, lock, mode_favorites, wallpaper, setCalls,
                   dislikedFile, favoritesFile, favorites, err, slept, entry>>

-----------------------------------------------------------------------------
(* get_chosen and set_done: neither touches self.lock *)

\* line 293: print("Wall:", self.manager.get_chosen())
GetChosen ==
    /\ pc[Main] = "get_chosen"
    /\ Goto(Main, "read")
    /\ UNCHANGED <<hostVars, update_period_minutes, indexed, disliked_filepaths, favorites_filepaths, history,
                   chosen, done, lock, mode_favorites, wallpaper, setCalls,
                   dislikedFile, favoritesFile, favorites, err, slept, target,
                   entry>>

\* line 296; then read() returns False and ezrun goes on to thread.join(), or
\* InputServer.read returns 'noop' (line 155) and ezrun reads again
SetDone ==
    /\ pc[Main] = "set_done"
    /\ done' = TRUE
    /\ Goto(Main, IF keep_going = "noop" THEN "read" ELSE "join")
    /\ UNCHANGED <<hostVars, update_period_minutes, indexed, disliked_filepaths, favorites_filepaths, history,
                   chosen, lock, mode_favorites, wallpaper, setCalls,
                   dislikedFile, favoritesFile, favorites, err, slept, target,
                   entry>>

-----------------------------------------------------------------------------
(* ezrun's command loop: InputStdin.read and InputHost.read on the main thread *)

\* the manager state and the thread-local state a dispatch leaves alone
ReadFrame ==
    UNCHANGED <<update_period_minutes, indexed, disliked_filepaths, favorites_filepaths, history,
                chosen, done, lock, wallpaper, setCalls, dislikedFile,
                favoritesFile, err, slept, target, entry>>

\* lines 41-42
ReadSkip ==
    /\ pc[Main] = "read"
    /\ Len(history) <= MaxHistory
    /\ Goto(Main, "dislike_acquire")
    /\ ReadFrame
    /\ UNCHANGED <<mode_favorites, favorites>>

\* lines 43-44
ReadUndo ==
    /\ pc[Main] = "read"
    /\ Goto(Main, "undo_acquire")
    /\ ReadFrame
    /\ UNCHANGED <<mode_favorites, favorites>>

\* lines 45-46
ReadNext ==
    /\ pc[Main] = "read"
    /\ Len(history) < MaxHistory
    /\ favorites' = [favorites EXCEPT ![Main] = mode_favorites]
    /\ Goto(Main, "pick_acquire")
    /\ ReadFrame
    /\ UNCHANGED mode_favorites

\* lines 47-49
ReadList ==
    /\ pc[Main] = "read"
    /\ Goto(Main, "get_chosen")
    /\ ReadFrame
    /\ UNCHANGED <<mode_favorites, favorites>>

\* lines 50-51
ReadFavorite ==
    /\ pc[Main] = "read"
    /\ Goto(Main, "favorite_acquire")
    /\ ReadFrame
    /\ UNCHANGED <<mode_favorites, favorites>>

\* lines 50-51, while the Favorites List is short
ReadFav ==
    /\ Len(favorites_filepaths) < MaxFavorites
    /\ ReadFavorite

\* lines 52-61: "mode normal" and "mode fav"
ReadMode ==
    /\ pc[Main] = "read"
    /\ \E arg2 \in {"normal", "fav"} : mode_favorites' = (arg2 = "fav")
    /\ ReadFrame
    /\ UNCHANGED <<pc, favorites>>

\* lines 63-65: exit, quit, done
ReadExit ==
    /\ pc[Main] = "read"
    /\ Goto(Main, "set_done")
    /\ ReadFrame
    /\ UNCHANGED <<mode_favorites, favorites>>

\* lines 323: thread.join()
Join ==
    /\ pc[Main] = "join"
    /\ pc[Rot] \in {"terminated", "raised"}
    /\ Goto(Main, "exited")
    /\ UNCHANGED <<hostVars, update_period_minutes, indexed, disliked_filepaths, favorites_filepaths, history,
                   chosen, done, lock, mode_favorites, wallpaper, setCalls,
                   dislikedFile, favoritesFile, favorites, err, slept, target,
                   entry>>

-----------------------------------------------------------------------------
(* Command strings: sequences of characters *)

\* the letters of the command words, upper case first
CasePairs ==
    { <<"A", "a">>, <<"D", "d">>, <<"E", "e">>, <<"F", "f">>, <<"I", "i">>,
      <<"K", "k">>, <<"L", "l">>, <<"M", "m">>, <<"N", "n">>, <<"O", "o">>,
      <<"P", "p">>, <<"Q", "q">>, <<"R", "r">>, <<"S", "s">>, <<"T", "t">>,
      <<"U", "u">>, <<"V", "v">>, <<"X", "x">> }

LowerChar(ch) ==
    IF \E cp \in CasePairs : cp[1] = ch
    THEN (CHOOSE cp \in CasePairs : cp[1] = ch)[2]
    ELSE ch

UpperChar(ch) ==
    IF \E cp \in CasePairs : cp[2] = ch
    THEN (CHOOSE cp \in CasePairs : cp[2] = ch)[1]
    ELSE ch

\* str.lower()
Lower(str) == [i \in 1..Len(str) |-> LowerChar(str[i])]

\* str.upper(), used to build inputs
Upper(str) == [i \in 1..Len(str) |-> UpperChar(str[i])]

\* the characters str.split() splits at
Whitespace == {" ", "\n", "\t"}

\* str.startswith
StartsWith(str, prefix) ==
    Len(prefix) <= Len(str) /\ SubSeq(str, 1, Len(prefix)) = prefix

\* str.split(): the maximal runs of non-whitespace characters
RECURSIVE Tokens(_, _)
Tokens(str, cur) ==
    IF str = <<>>
    THEN IF cur = <<>> THEN <<>> ELSE <<cur>>
    ELSE IF Head(str) \in Whitespace
         THEN (IF cur = <<>> THEN <<>> ELSE <<cur>>) \o Tokens(Tail(str), <<>>)
         ELSE Tokens(Tail(str), Append(cur, Head(str)))

Split(str) == Tokens(str, <<>>)

\* the non-empty prefixes of a word
Prefixes(word) == {SubSeq(word, 1, k) : k \in 1..Len(word)}

SkipWord == <<"s", "k", "i", "p">>

UndoWord == <<"u", "n", "d", "o">>

NextWord == <<"n", "e", "x", "t">>

ListWord == <<"l", "i", "s", "t">>

FavWord == <<"f", "a", "v">>

ModeWord == <<"m", "o", "d", "e">>

ExitWord == <<"e", "x", "i", "t">>

QuitWord == <<"q", "u", "i", "t">>

DoneWord == <<"d", "o", "n", "e">>

NoopWord == <<"n", "o", "o", "p">>

NormalWord == <<"n", "o", "r", "m", "a", "l">>

\* the tuples of lines 41, 43, 45, 47, 50 and 63
SkipWords == Prefixes(SkipWord)

UndoWords == Prefixes(UndoWord)

NextWords == Prefixes(NextWord)

ListWords == Prefixes(ListWord)

FavWords == Prefixes(FavWord)

StopWords == {ExitWord, QuitWord, DoneWord}

\* the branches of lines 41-71 without line 40
ActionCaseSensitive(str) ==
    LET c == str
    IN IF c \in SkipWords THEN "skip"
       ELSE IF c \in UndoWords THEN "undo"
       ELSE IF c \in NextWords THEN "next"
       ELSE IF c \in ListWords THEN "list"
       ELSE IF c \in FavWords THEN "fav"
       ELSE IF StartsWith(c, ModeWord) THEN "mode"
       ELSE IF c \in StopWords THEN "stop"
       ELSE IF c = NoopWord THEN "noop"
       ELSE "other"

\* the branch of the if/elif chain of InputHost.read that str takes
\* (lines 40-71); "other" is the fall-through
Action(str) ==
    LET c == Lower(str)
    IN IF c \in SkipWords THEN "skip"
       ELSE IF c \in UndoWords THEN "undo"
       ELSE IF c \in NextWords THEN "next"
       ELSE IF c \in ListWords THEN "list"
       ELSE IF c \in FavWords THEN "fav"
       ELSE IF StartsWith(c, ModeWord) THEN "mode"
       ELSE IF c \in StopWords THEN "stop"
       ELSE IF c = NoopWord THEN "noop"
       ELSE "other"

\* lines 52-61 with "mode" alone switching to favourites
ModeAfterBareSetsFav(str) ==
    LET lineargs == Split(Lower(str))
    IN IF Len(lineargs) = 1 THEN TRUE
       ELSE IF Lower(lineargs[2]) = NormalWord THEN FALSE
       ELSE IF Lower(lineargs[2]) = FavWord THEN TRUE
       ELSE mode_favorites

\* lines 53-61: the mode flag after the command str, which starts with "mode"
ModeAfter(str) ==
    LET lineargs == Split(Lower(str))
    IN IF Len(lineargs) = 1 THEN mode_favorites
       ELSE IF Lower(lineargs[2]) = NormalWord THEN FALSE
       ELSE IF Lower(lineargs[2]) = FavWord THEN TRUE
       ELSE mode_favorites

-----------------------------------------------------------------------------
(* The command strings the hosts are run on *)

Join2(a, b) == a \o <<" ">> \o b

Verbs == {SkipWord, UndoWord, NextWord, ListWord, FavWord, ModeWord,
          ExitWord, QuitWord, DoneWord}

\* a word as typed, in upper case, with a trailing newline, with a leading blank
Variants(word) == {word, Upper(word), word \o <<"\n">>, <<" ">> \o word}

\* every prefix of every verb in these variants; mode with a second token;
\* the noop sentinel; strings that are no command
ParserInputs ==
    UNION {Variants(w) : w \in UNION {Prefixes(v) : v \in Verbs}}
    \cup {Join2(ModeWord, FavWord), Join2(ModeWord, NormalWord),
          Upper(Join2(ModeWord, FavWord)), Join2(ModeWord, <<"x">>),
          Join2(ModeWord \o <<"s">>, FavWord), ModeWord \o <<" ">>}
    \cup {NoopWord, <<>>, <<"x">>, SkipWord \o <<"p">>, <<"n", "o">>}

\* the commands that the loop is run on for several reads
LoopInputs == {SkipWord, NextWord, FavWord, ExitWord}

-----------------------------------------------------------------------------
(* InputHost.read(command), InputStdin.read and InputServer.read *)

\* lines 52-61 on the command string str
ReadModeCommand(str) ==
    /\ pc[Main] = "read"
    /\ mode_favorites' = ModeAfter(str)
    /\ ReadFrame
    /\ UNCHANGED <<pc, favorites>>

\* lines 67-71: 'noop' and every string no branch matches
ReadIgnored ==
    /\ pc[Main] = "read"
    /\ ReadFrame
    /\ UNCHANGED <<pc, favorites, mode_favorites>>

\* InputHost.read(str): the branch taken and the value it will return
HostDispatch(str) ==
    /\ CASE Action(str) = "skip" -> ReadSkip
         [] Action(str) = "undo" -> ReadUndo
         [] Action(str) = "next" -> ReadNext
         [] Action(str) = "list" -> ReadList
         [] Action(str) = "fav"  -> ReadFavorite
         [] Action(str) = "mode" -> ReadModeCommand(str)
         [] Action(str) = "stop" -> ReadExit
         [] OTHER -> ReadIgnored
    /\ command' = str
    /\ action' = Action(str)
    /\ keep_going' = IF Action(str) = "stop" THEN "False" ELSE "True"

\* the loop of ezrun calls read() again
CanRead(h) ==
    /\ host = h
    /\ pc[Main] = "read"
    /\ Len(io) < budget

\* lines 76 and 80: input() returns a line, without its newline
StdinRead ==
    /\ CanRead("stdin")
    /\ \E str \in {c \in inputs : "\n" \notin Range(c)} : HostDispatch(str)
    /\ io' = Append(io, "line")
    /\ UNCHANGED <<host, server_socket, client_socket, inputs, budget>>

\* lines 77-79: KeyboardInterrupt in input()
StdinInterrupt ==
    /\ CanRead("stdin")
    /\ ReadExit
    /\ io' = Append(io, "interrupt")
    /\ command' = NoCommand
    /\ action' = "interrupt"
    /\ keep_going' = "False"
    /\ UNCHANGED <<host, server_socket, client_socket, inputs, budget>>

\* line 76: input() raises EOFError when the console is closed; nothing catches it
StdinEof ==
    /\ CanRead("stdin")
    /\ Raise(Main, "EOFError")
    /\ io' = Append(io, "eof")
    /\ UNCHANGED <<host, server_socket, client_socket, inputs, budget, command,
                   action, keep_going>>
    /\ UNCHANGED <<update_period_minutes, indexed, disliked_filepaths,
                   favorites_filepaths, history, chosen, done, lock,
                   mode_favorites, wallpaper, setCalls, dislikedFile,
                   favoritesFile, favorites, slept, target, entry>>

\* lines 97-108 and 149: bind() fails on the first read; nothing catches it
ServerOpenFails ==
    /\ CanRead("server")
    /\ server_socket = "None"
    /\ server_socket' = "open"
    /\ Raise(Main, "OSError(bind)")
    /\ io' = Append(io, "bind_failed")
    /\ UNCHANGED <<host, client_socket, inputs, budget, command, action,
                   keep_going>>
    /\ UNCHANGED <<update_period_minutes, indexed, disliked_filepaths,
                   favorites_filepaths, history, chosen, done, lock,
                   mode_favorites, wallpaper, setCalls, dislikedFile,
                   favoritesFile, favorites, slept, target, entry>>

\* lines 110-122 and 126-127: accept() times out, fails or is interrupted,
\* _read returns 'noop'
ServerAcceptFails ==
    /\ CanRead("server")
    /\ client_socket = "None"
    /\ server_socket' = "open"
    /\ client_socket' = "None"
    /\ HostDispatch(NoopWord)
    /\ io' = Append(io, "accept_failed")
    /\ UNCHANGED <<host, inputs, budget>>

\* _read without lines 134-135 and 141-142
ServerRecvFailsKeepsClient ==
    /\ CanRead("server")
    /\ server_socket' = "open"
    /\ client_socket' = client_socket
    /\ HostDispatch(NoopWord)
    /\ \E how \in {"recv_failed", "empty"} :
          io' = Append(io, how)
    /\ UNCHANGED <<host, inputs, budget>>

\* lines 129-143: with a client connected or just accepted, recv() raises (a
\* timeout, a connection error, a KeyboardInterrupt: the except is bare) or
\* returns no bytes; the socket is closed and _read returns 'noop'
ServerRecvFails ==
    /\ CanRead("server")
    /\ server_socket' = "open"
    /\ client_socket' = "None"
    /\ HostDispatch(NoopWord)
    /\ \E how \in {"recv_failed", "empty"} :
          io' = Append(io, how)
    /\ UNCHANGED <<host, inputs, budget>>

\* lines 132, 139-145 and 152: recv() returns the bytes of a command string
ServerRecvData ==
    /\ CanRead("server")
    /\ server_socket' = "open"
    /\ client_socket' = "connected"
    /\ \E str \in {c \in inputs : c # <<>>} : HostDispatch(str)
    /\ io' = Append(io, "data")
    /\ UNCHANGED <<host, inputs, budget>>

\* line 139: the bytes are not UTF-8; UnicodeDecodeError, which nothing catches
ServerRecvUndecodable ==
    /\ CanRead("server")
    /\ server_socket' = "open"
    /\ client_socket' = "connected"
    /\ Raise(Main, "UnicodeDecodeError")
    /\ io' = Append(io, "undecodable")
    /\ UNCHANGED <<host, inputs, budget, command, action, keep_going>>
    /\ UNCHANGED <<update_period_minutes, indexed, disliked_filepaths,
                   favorites_filepaths, history, chosen, done, lock,
                   mode_favorites, wallpaper, setCalls, dislikedFile,
                   favoritesFile, favorites, slept, target, entry>>

\* lines 153-155: KeyboardInterrupt between the calls of lines 149-152, with
\* or without a client; set_done() is called and read returns 'noop'
ServerInterrupt ==
    /\ CanRead("server")
    /\ server_socket' = "open"
    /\ client_socket' \in {"None", "connected"}
    /\ ReadExit
    /\ io' = Append(io, "interrupt")
    /\ command' = NoCommand
    /\ action' = "interrupt"
    /\ keep_going' = "noop"
    /\ UNCHANGED <<host, inputs, budget>>

-----------------------------------------------------------------------------
(* WallpaperManager.run on the rotation thread *)

RunFrame ==
    UNCHANGED <<hostVars, update_period_minutes, indexed, disliked_filepaths, favorites_filepaths, history,
                chosen, done, lock, mode_favorites, wallpaper, setCalls,
                dislikedFile, favoritesFile, favorites, err, target, entry>>

\* the iterations of the two nested for loops of run()
TotalIncrements == update_period_minutes * IncrementsPerMinute

\* where run() goes when the two for loops are exhausted: line 304, self.pick()
AfterSleep(n) == IF n >= TotalIncrements THEN "pick_acquire" ELSE "inner_check"

\* line 299: while not self.done, entering the for loops
WhileCheck ==
    /\ pc[Rot] = "while_check"
    /\ IF done
       THEN /\ Goto(Rot, "terminated")
            /\ UNCHANGED slept
       ELSE /\ AfterSleep(0) = "pick_acquire" => Len(history) < MaxHistory
            /\ slept' = 0
            /\ Goto(Rot, AfterSleep(0))
    /\ RunFrame

\* line 302: if self.done: return
InnerCheck ==
    /\ pc[Rot] = "inner_check"
    /\ Goto(Rot, IF done THEN "terminated" ELSE "sleep")
    /\ UNCHANGED slept
    /\ RunFrame

\* line 303: time.sleep(5), then the next iteration or line 304
Sleep ==
    /\ pc[Rot] = "sleep"
    /\ AfterSleep(slept + 1) = "pick_acquire" => Len(history) < MaxHistory
    /\ slept' = slept + 1
    /\ Goto(Rot, AfterSleep(slept + 1))
    /\ RunFrame

-----------------------------------------------------------------------------

\* the steps of the manager methods and of the rotation thread
Steps ==
    \/ \E t \in Threads : PickAcquire(t)
    \/ \E t \in Threads : PickChoose(t)
    \/ \E t \in Threads : PickSet(t)
    \/ \E t \in Threads : PickRelease(t)
    \/ UndoAcquire
    \/ UndoBody
    \/ UndoRelease
    \/ FavoriteAcquire
    \/ FavoriteAppend
    \/ FavoriteWrite
    \/ FavoriteRelease
    \/ DislikeAcquire
    \/ DislikeBody
    \/ DislikeWrite
    \/ DislikeRelease
    \/ DislikeReturn
    \/ GetChosen
    \/ SetDone
    \/ Join
    \/ WhileCheck
    \/ InnerCheck
    \/ Sleep

\* the console host on parsed commands
Next ==
    \/ Steps
    \/ ReadSkip /\ UNCHANGED hostVars
    \/ ReadUndo /\ UNCHANGED hostVars
    \/ ReadNext /\ UNCHANGED hostVars
    \/ ReadList /\ UNCHANGED hostVars
    \/ ReadFav /\ UNCHANGED hostVars
    \/ ReadMode /\ UNCHANGED hostVars
    \/ ReadExit /\ UNCHANGED hostVars

Spec == Init /\ [][Next]_vars

\* the number of reads the command loop is run for on LoopInputs
MaxReads == 2

\* one read on every string of ParserInputs, or MaxReads reads on LoopInputs
Scenarios ==
    { [inputs |-> ParserInputs, budget |-> 1],
      [inputs |-> LoopInputs, budget |-> MaxReads] }

HostSpecInit ==
    \E c \in Configurations, h \in {"stdin", "server"}, sc \in Scenarios :
        /\ ManagerInit(c)
        /\ HostInit(h, sc.inputs, sc.budget)

\* either input host on command strings
HostNext ==
    \/ Steps
    \/ StdinRead
    \/ StdinInterrupt
    \/ StdinEof
    \/ ServerOpenFails
    \/ ServerAcceptFails
    \/ ServerRecvFails
    \/ ServerRecvData
    \/ ServerRecvUndecodable
    \/ ServerInterrupt

HostSpec == HostSpecInit /\ [][HostNext]_vars

-----------------------------------------------------------------------------
(* Positions of the threads *)

\* thread t is between a lock.acquire() and the matching lock.release()
InLockedSection(t) ==
    pc[t] \in {"pick_choose", "pick_set", "pick_release",
               "undo_body", "undo_release",
               "favorite_append", "favorite_write", "favorite_release",
               "dislike_body", "dislike_write", "dislike_release"}

\* thread t has called a locking method and waits in its lock.acquire()
AtAcquire(t) ==
    pc[t] \in {"pick_acquire", "undo_acquire", "favorite_acquire", "dislike_acquire"}

\* no manager method is running or was aborted in either thread
Quiescent ==
    /\ pc[Main] \in {"read", "join", "exited"}
    /\ pc[Rot] \in {"while_check", "inner_check", "sleep", "terminated"}

\* dislike() has removed its path and its final self.pick() has not returned
DislikeInFlight ==
    /\ target # NoPath
    /\ pc[Main] \in {"dislike_write", "dislike_release", "pick_acquire",
                     "pick_choose", "pick_set", "pick_release"}

-----------------------------------------------------------------------------
(* Claims *)

\* C1: whenever no manager operation is in progress, chosen is the last
\* element of history (stated as the claim has it; undo() breaks it).
C1_ChosenIsHistoryTop ==
    Quiescent => (Len(history) >= 1 /\ chosen = Last(history))

\* C2: history has length >= 1 in every reachable state (stated as the claim
\* has it; dislike() on a history holding only the chosen path breaks it).
C2_HistoryNonEmpty == Len(history) >= 1

\* C3: no path is both in the candidate pool and in the disliked list (stated
\* as the claim has it; a path listed twice in the pool breaks it).
C3_PoolDislikedDisjoint ==
    Range(indexed) \cap Range(disliked_filepaths) = {}

C5_DislikeOneCriticalSection ==
    DislikeInFlight => pc[Rot] \notin {"pick_choose", "pick_set", "pick_release"}

\* C6: when dislike() has completed, the path it disliked is nowhere in the
\* pool, nowhere in history, and chosen is another, newly picked path (stated
\* as the claim has it; list.remove drops one occurrence only).
C6_DislikedPathGone ==
    pc[Main] = "dislike_return" =>
        /\ target \notin Range(indexed)
        /\ target \notin Range(history)
        /\ chosen # target

\* C7: after a pick on an empty pool has failed, the failed thread does not
\* hold the lock, and chosen and history are as the pick found them (stated as
\* the claim has it; the IndexError skips the lock.release() of pick()).
C7_EmptyPickRecovers ==
    \A t \in Threads :
        err[t] = "IndexError" =>
            /\ lock # t
            /\ entry.held => (chosen = entry.chosen /\ history = entry.history)

\* C8: when the snapshot write of favorite() or dislike() fails, the error
\* reaches the caller and, once the method has been left, the lock is not held
\* by the failed thread.
C8_WriteFailureReleasesLock ==
    err[Main] = "OSError" =>
        /\ pc[Main] \in {"favorite_release", "dislike_release", "raised"}
        /\ pc[Main] = "raised" => lock # Main

\* C8 witness: the write in dislike() failed, the method was left, and the
\* rotation thread has since acquired the lock for its pick.
C8_Witness ==
    /\ err[Main] = "OSError"
    /\ pc[Main] = "raised"
    /\ target # NoPath
    /\ lock = Rot

\* C9: a pick that reaches its release has set chosen to a member of the
\* favorites list if called with favorites and that list is non-empty, else to
\* a member of the pool; it appended exactly chosen to the history it found,
\* called set_wallpaper once with it, and left pool, disliked list and
\* favorites list as it found them.
C9_PickEffect ==
    \A t \in Threads :
        pc[t] = "pick_release" =>
            /\ entry.held
            /\ chosen \in Range(IF favorites[t] /\ Len(entry.favorites_filepaths) > 0
                                THEN entry.favorites_filepaths
                                ELSE entry.indexed)
            /\ history = Append(entry.history, chosen)
            /\ wallpaper = chosen
            /\ setCalls # entry.setCalls
            /\ indexed = entry.indexed
            /\ disliked_filepaths = entry.disliked_filepaths
            /\ favorites_filepaths = entry.favorites_filepaths

\* C9 witness: a pick called in favorites mode has chosen a favorite that is
\* not in the pool.
C9_Witness ==
    /\ pc[Main] = "pick_release"
    /\ favorites[Main]
    /\ chosen \in Range(favorites_filepaths)
    /\ chosen \notin Range(indexed)
    /\ history = Append(entry.history, chosen)

\* C10: an undo() that found a history of length 1 reaches its release with
\* history, chosen, pool, disliked list, favorites list and stop flag as it
\* found them, and without a set_wallpaper call.
C10_UndoAtSeedIsNoop ==
    (pc[Main] = "undo_release" /\ Len(entry.history) = 1) =>
        /\ history = entry.history
        /\ chosen = entry.chosen
        /\ indexed = entry.indexed
        /\ disliked_filepaths = entry.disliked_filepaths
        /\ favorites_filepaths = entry.favorites_filepaths
        /\ done = entry.done
        /\ wallpaper = entry.wallpaper
        /\ setCalls = entry.setCalls

\* C10 witness: undo() has run on a history of length 1, after an earlier
\* undo() had popped the history down to that length.
C10_Witness ==
    /\ pc[Main] = "undo_release"
    /\ Len(entry.history) = 1
    /\ chosen # Last(history)

-----------------------------------------------------------------------------
(* The command parser *)

\* a step of the main thread that is a read of the host
IsRead == Len(io') > Len(io)

\* the outcomes of accept() and recv() that _accept and _read recover from
Failures == {"accept_failed", "recv_failed", "empty"}

\* a read of the host that goes on to InputHost.read(command)
Parses == IsRead /\ Last(io') \in {"line", "data"} \cup Failures

\* str.strip(), the trimming that is claimed for command strings
Strip(str) ==
    LET kept == {i \in 1..Len(str) : str[i] \notin Whitespace}
        lo == CHOOSE i \in kept : \A k \in kept : i <= k
        hi == CHOOSE i \in kept : \A k \in kept : i >= k
    IN IF kept = {} THEN <<>> ELSE SubSeq(str, lo, hi)

PrefixVerbs == {SkipWord, UndoWord, NextWord, ListWord, FavWord}

\* the non-empty prefixes of each verb, and the action of each verb
PrefixesOf == [v \in Verbs |-> Prefixes(v)]

ActionOf == [v \in Verbs |-> Action(v)]

\* the non-empty prefixes of any verb, and those of mode, exit, quit and done
\* that are shorter than the verb
AnyPrefix == UNION {PrefixesOf[v] : v \in Verbs}

ProperPrefix == UNION {PrefixesOf[v] \ {v} : v \in Verbs \ PrefixVerbs}

\* C11 as stated: a command string that, trimmed and in lower case, is a
\* non-empty prefix of one of the nine verbs acts as that verb.
C11_AnyPrefixTrimmed ==
    [][Parses =>
          LET c == Strip(Lower(command'))
          IN \A v \in Verbs : c \in PrefixesOf[v] => action' = ActionOf[v]]_vars

\* C11: in any letter case, a non-empty prefix of skip, undo, next, list or
\* fav acts as that verb, a string that starts with "mode" acts as mode, and
\* exit, quit and done act as stop when written out; nothing is trimmed, so a
\* proper prefix of mode, exit, quit or done, or a prefix with whitespace
\* around it that does not start with "mode", acts as no verb.
C11_PrefixParsing ==
    [][Parses =>
          LET c == Lower(command')
          IN /\ \A v \in PrefixVerbs :
                   c \in PrefixesOf[v] => action' = ActionOf[v]
             /\ StartsWith(c, ModeWord) => action' = ActionOf[ModeWord]
             /\ c \in StopWords => action' = ActionOf[ExitWord]
             /\ c \in ProperPrefix => action' = "other"
             /\ (c \notin AnyPrefix /\ ~StartsWith(c, ModeWord)
                 /\ Strip(c) \in AnyPrefix)
                    => action' = "other"]_vars

\* "SKI" was read and acts as skip
C11_Witness ==
    /\ command = <<"S", "K", "I">>
    /\ action = "skip"
    /\ pc[Main] = "dislike_acquire"

-----------------------------------------------------------------------------
(* The rotation loop and the Stop Flag *)

\* C12: the rotation loop never enters pick when the Stop Flag is already
\* set, whichever sleep increment the flag was set in.
C12_NoPickAfterStop ==
    [][(pc[Rot] # "pick_acquire" /\ pc'[Rot] = "pick_acquire") => ~done]_vars

\* the rotation thread waits for a lock whose holder has ended
RotationBlockedForever ==
    /\ pc[Rot] = "pick_acquire"
    /\ lock = Main
    /\ pc[Main] = "raised"

\* C13: once the Stop Flag is set the rotation loop starts no further sleep
\* increment and no new period, and it is not left waiting for ever: it can
\* always go on to its end.
C13_StopEndsRotation ==
    [][done' =>
          /\ (pc'[Rot] = "sleep" => pc[Rot] = "sleep")
          /\ (pc'[Rot] = "inner_check" => pc[Rot] \in {"sleep", "inner_check"})
          /\ ~RotationBlockedForever']_vars

-----------------------------------------------------------------------------
(* The command loop of ezrun and the input hosts *)

\* exceptions of a read that no handler of the host or of ezrun catches
InputErrors == {"EOFError", "UnicodeDecodeError", "OSError(bind)"}

\* the command loop has ended, by a stop action or by an input error
LoopEnded ==
    \/ pc[Main] \in {"join", "exited"}
    \/ pc[Main] = "raised" /\ err[Main] \in InputErrors

\* C14: when the command loop has ended, by a stop action or by an input
\* error the host does not recover from, the Stop Flag is set, so that the
\* rotation thread ends too.
C14_LoopEndSetsStop == LoopEnded => done

\* C15: on both hosts no read is issued while the Stop Flag is true, and
\* the command loop is left only with the Stop Flag set.
C15_StopReturnsStop ==
    [][/\ IsRead => ~done
       /\ pc'[Main] = "join" => done']_vars

\* C16: a read of the listener host in which accept() fails, or recv() times
\* out, fails or returns no bytes, returns "keep looping" with the client
\* socket cleared and the state of the manager unchanged; the command loop
\* is at its next read.
C16_FailureIsNoop ==
    [][(IsRead /\ Last(io') \in Failures) =>
          /\ keep_going' = "True"
          /\ action' = "noop"
          /\ client_socket' = "None"
          /\ pc'[Main] = "read"
          /\ UNCHANGED <<indexed, disliked_filepaths, favorites_filepaths,
                         history, chosen, done, lock, mode_favorites,
                         wallpaper, setCalls, dislikedFile, favoritesFile,
                         err>>]_vars

\* after a failed read with a client connected, a later read accepted a
\* client and delivered its command
C16_Witness ==
    /\ host = "server"
    /\ Len(io) = 2
    /\ io[1] \in Failures \ {"accept_failed"}
    /\ io[2] = "data"
    /\ client_socket = "connected"
    /\ action = "skip"
    /\ pc[Main] = "dislike_acquire"

-----------------------------------------------------------------------------
(* favorite() *)

\* list a is an initial part of list b
IsPrefix(a, b) == Len(a) <= Len(b) /\ SubSeq(b, 1, Len(a)) = a

\* C17: at the end of favorite() the Favorites List is the list found at the
\* call with Chosen appended, also when Chosen was in it already; the
\* snapshot written is that whole list; Chosen, History, Candidate Pool and
\* Disliked Set are as found; and no step ever removes or reorders entries of
\* the Favorites List.
C17_FavoriteAppends ==
    /\ [](pc[Main] = "favorite_release" =>
            /\ favorites_filepaths =
                   Append(entry.favorites_filepaths, entry.chosen)
            /\ err[Main] = NoError => favoritesFile = favorites_filepaths
            /\ chosen = entry.chosen
            /\ history = entry.history
            /\ indexed = entry.indexed
            /\ disliked_filepaths = entry.disliked_filepaths)
    /\ [][IsPrefix(favorites_filepaths, favorites_filepaths')]_vars

\* the same Chosen was favorited twice and the snapshot was written
C17_Witness ==
    /\ pc[Main] = "favorite_release"
    /\ err[Main] = NoError
    /\ Len(favorites_filepaths) = 2
    /\ favorites_filepaths[1] = favorites_filepaths[2]
    /\ favorites_filepaths[2] = chosen
    /\ favoritesFile = favorites_filepaths

-----------------------------------------------------------------------------
(* Commands that do not change the manager *)

\* the branches of InputHost.read that call no mutating manager method
Passive == {"list", "noop", "mode", "other"}

\* the second token of a mode command names a mode
NamesMode(str) ==
    /\ Len(Split(str)) >= 2
    /\ Lower(Split(str)[2]) \in {NormalWord, FavWord}

\* C18: a read of list, noop, mode or an unrecognized string, and the
\* get_chosen call of list, leave Chosen, History, Candidate Pool, Disliked
\* Set, Favorites List, Stop Flag, desktop, snapshots and lock as they were
\* and return "keep looping"; the Mode flag changes only on a mode command
\* whose second token is normal or fav, and then to the mode it names.
C18_PassiveCommands ==
    [][/\ (Parses /\ action' \in Passive) =>
             /\ UNCHANGED <<chosen, history, indexed, disliked_filepaths,
                            favorites_filepaths, done, wallpaper, setCalls,
                            dislikedFile, favoritesFile, lock, err>>
             /\ keep_going' = "True"
             /\ pc'[Main] = (IF action' = "list" THEN "get_chosen" ELSE "read")
             /\ IF action' = "mode" /\ NamesMode(command')
                THEN mode_favorites' = (Lower(Split(command')[2]) = FavWord)
                ELSE UNCHANGED mode_favorites
       /\ (pc[Main] = "get_chosen" /\ pc'[Main] # "get_chosen") =>
             /\ pc'[Main] = "read"
             /\ UNCHANGED <<chosen, history, indexed, disliked_filepaths,
                            favorites_filepaths, done, wallpaper, setCalls,
                            dislikedFile, favoritesFile, mode_favorites,
                            lock, err>>]_vars

\* "mode" alone was read: nothing changed and the loop goes on
C18_Witness ==
    /\ command = ModeWord
    /\ action = "mode"
    /\ keep_going = "True"
    /\ ~mode_favorites
    /\ pc[Main] = "read"
    /\ Len(io) = 1

-----------------------------------------------------------------------------
(* dislike() on a Chosen outside the pool, and pick against the Disliked Set *)

\* C19: dislike() does not end with an unhandled error that leaves the lock
\* held: the only exception that leaves dislike() is the failure of its
\* snapshot write, and the main thread then does not hold the lock.
C19_DislikeCompletes ==
    (target # NoPath /\ pc[Main] = "raised") =>
        (err[Main] = "OSError" /\ lock # Main)

\* C20: a path that pick has just made Chosen, for either thread and from
\* either source list, is not in the Disliked Set.
C20_PickAvoidsDisliked ==
    \A t \in Threads :
        pc[t] \in {"pick_set", "pick_release"} =>
            chosen \notin Range(disliked_filepaths)

====
